---------------------------- MODULE Spec2Model ----------------------------
(***************************************************************************)
(* Personal Expense Tracker: the record store, its JSON file and the       *)
(* monthly aggregation, in the repository's two program variants.          *)
(*                                                                         *)
(*   variant "A"  src/personal_expense_tracker.py : keeps the list         *)
(*                `expenses` in memory, validates on load/add/edit,        *)
(*                save_expenses swallows write errors.                     *)
(*   variant "B"  src/unnamed/part_000 : every operation reloads the file, *)
(*                nothing is validated, save_expenses lets write errors    *)
(*                propagate (main has no handler, so the process ends).    *)
(*                                                                         *)
(* Text is a sequence of one-character strings, so that strip(), slicing   *)
(* and parsing are computed on the characters.  A Python float is an       *)
(* integer count of thousandths, or inf, or nan; the amounts offered as    *)
(* input carry at most three fractional digits and no tie whose binary     *)
(* value differs from its decimal one.  Key casing of the JSON objects     *)
(* (amount/Amount ...) is not represented: a behaviour runs one variant    *)
(* on files of that variant's casing.  A missing key and a null value are  *)
(* the same value None, as dict.get makes them in variant A.               *)
(***************************************************************************)
EXTENDS Integers, Sequences, FiniteSets, TLC

\* ------------------------------------------------------------------ bounds
MaxLen == 2          \* add is offered while the stored list is shorter

\* ------------------------------------------------------------- characters
Digits == {"0", "1", "2", "3", "4", "5", "6", "7", "8", "9"}

DigitVal(c) ==
  CASE c = "0" -> 0 [] c = "1" -> 1 [] c = "2" -> 2 [] c = "3" -> 3
    [] c = "4" -> 4 [] c = "5" -> 5 [] c = "6" -> 6 [] c = "7" -> 7
    [] c = "8" -> 8 [] c = "9" -> 9

\* code point of the characters the inputs use (for sorted())
CharOrd(c) ==
  CASE c = " " -> 32 [] c = "-" -> 45 [] c = "." -> 46
    [] c \in Digits -> 48 + DigitVal(c)
    [] c = "F" -> 70 [] c = "T" -> 84
    [] c = "a" -> 97 [] c = "b" -> 98 [] c = "c" -> 99
    [] c = "f" -> 102 [] c = "i" -> 105 [] c = "n" -> 110 [] c = "x" -> 120
    [] OTHER -> 127

AllDigits(s) == \A i \in 1..Len(s) : s[i] \in Digits

RECURSIVE DigitsVal(_)
DigitsVal(s) ==
  IF s = <<>> THEN 0
  ELSE 10 * DigitsVal(SubSeq(s, 1, Len(s) - 1)) + DigitVal(s[Len(s)])

\* str.strip(): leading and trailing blanks removed
RECURSIVE LStrip(_)
LStrip(s) == IF s # <<>> /\ s[1] = " " THEN LStrip(Tail(s)) ELSE s

RECURSIVE RStrip(_)
RStrip(s) ==
  IF s # <<>> /\ s[Len(s)] = " " THEN RStrip(SubSeq(s, 1, Len(s) - 1)) ELSE s

Strip(s) == RStrip(LStrip(s))

\* s[:n]
Prefix(s, n) == SubSeq(s, 1, IF Len(s) < n THEN Len(s) ELSE n)

\* s.split(sep) on a one-character separator
RECURSIVE Split(_, _)
Split(s, sep) ==
  IF \A i \in 1..Len(s) : s[i] # sep THEN <<s>>
  ELSE LET k == CHOOSE i \in 1..Len(s) :
                   s[i] = sep /\ \A j \in 1..(i - 1) : s[j] # sep
       IN  <<SubSeq(s, 1, k - 1)>> \o Split(SubSeq(s, k + 1, Len(s)), sep)

\* lexicographic order of two texts by code point (str.__lt__)
RECURSIVE StrLess(_, _)
StrLess(a, b) ==
  IF b = <<>> THEN FALSE
  ELSE IF a = <<>> THEN TRUE
  ELSE IF a[1] # b[1] THEN CharOrd(a[1]) < CharOrd(b[1])
  ELSE StrLess(Tail(a), Tail(b))

\* ---------------------------------------------------------- Python values
Float(n) == [t |-> "float", n |-> n, s |-> <<>>]
FInf     == [t |-> "inf",   n |-> 0, s |-> <<>>]
FNaN     == [t |-> "nan",   n |-> 0, s |-> <<>>]
Str(s)   == [t |-> "str",   n |-> 0, s |-> s]
None     == [t |-> "None",  n |-> 0, s |-> <<>>]

IsFloat(v) == v.t \in {"float", "inf", "nan"}

\* float + float
FAdd(a, b) ==
  IF a.t = "nan" \/ b.t = "nan" THEN FNaN
  ELSE IF a.t = "inf" \/ b.t = "inf" THEN FInf
  ELSE Float(a.n + b.n)

\* round(x, 2) of a float; thousandths to the nearest hundredth, ties to even
Round2(v) ==
  IF v.t # "float" THEN v
  ELSE LET q == v.n \div 10
           r == v.n % 10
       IN  Float(IF r < 5 THEN 10 * q
                 ELSE IF r > 5 THEN 10 * (q + 1)
                 ELSE IF q % 2 = 0 THEN 10 * q ELSE 10 * (q + 1))

\* digits of a fractional part as thousandths
FracVal(f) ==
  LET d == Prefix(f, 3)
  IN  IF Len(d) = 0 THEN 0
      ELSE IF Len(d) = 1 THEN 100 * DigitsVal(d)
      ELSE IF Len(d) = 2 THEN 10 * DigitsVal(d)
      ELSE DigitsVal(d)

\* float(text): [ok |-> FALSE] stands for ValueError
ParseFloat(raw) ==
  LET s    == Strip(raw)
      neg  == s # <<>> /\ s[1] = "-"
      body == IF s # <<>> /\ s[1] \in {"-", "+"} THEN Tail(s) ELSE s
      p    == Split(body, ".")
  IN  IF body = <<"i", "n", "f">> /\ ~neg THEN [ok |-> TRUE, v |-> FInf]
      ELSE IF body = <<"n", "a", "n">> THEN [ok |-> TRUE, v |-> FNaN]
      ELSE IF /\ Len(p) \in {1, 2}
              /\ \A i \in 1..Len(p) : AllDigits(p[i])
              /\ \E i \in 1..Len(p) : p[i] # <<>>
      THEN LET mag == 1000 * DigitsVal(p[1])
                        + (IF Len(p) = 2 THEN FracVal(p[2]) ELSE 0)
           IN  [ok |-> TRUE, v |-> Float(IF neg THEN 0 - mag ELSE mag)]
      ELSE [ok |-> FALSE, v |-> None]

\* float(value) as load_expenses applies it to a JSON value
ToFloat(v) ==
  IF IsFloat(v) THEN [ok |-> TRUE, v |-> v]
  ELSE IF v.t = "str" THEN ParseFloat(v.s)
  ELSE [ok |-> FALSE, v |-> None]

\* ------------------------------------------------------------------ dates
IsLeap(y) == (y % 4 = 0 /\ y % 100 # 0) \/ y % 400 = 0

DaysIn(y, m) ==
  IF m = 2 THEN (IF IsLeap(y) THEN 29 ELSE 28)
  ELSE IF m \in {4, 6, 9, 11} THEN 30 ELSE 31

\* datetime.strptime(text, "%Y-%m-%d") succeeds
\*   %Y : \d\d\d\d    %m : 1[0-2]|0[1-9]|[1-9]
\*   %d : 3[01]|[12]\d|0[1-9]|[1-9]| [1-9]
StrptimeOk(s) ==
  LET p == Split(s, "-")
  IN  /\ Len(p) = 3
      /\ Len(p[1]) = 4 /\ AllDigits(p[1]) /\ DigitsVal(p[1]) >= 1
      /\ Len(p[2]) \in {1, 2} /\ AllDigits(p[2]) /\ DigitsVal(p[2]) \in 1..12
      /\ LET d == IF Len(p[3]) = 2 /\ p[3][1] = " " THEN Tail(p[3]) ELSE p[3]
         IN  /\ Len(p[3]) \in {1, 2} /\ d # <<>> /\ AllDigits(d)
             /\ DigitsVal(d) \in 1..DaysIn(DigitsVal(p[1]), DigitsVal(p[2]))


\* ------------------------------------------------------- records and file
\* one element of the JSON list / of the Python list
Rec(a, c, d, x) ==
  [dict |-> TRUE, amount |-> a, category |-> c, date |-> d, description |-> x]

\* a list element that is not a JSON object
NonDict ==
  [dict |-> FALSE, amount |-> None, category |-> None, date |-> None,
   description |-> None]

FileAbsent  == [kind |-> "absent",  entries |-> <<>>]
FileCorrupt == [kind |-> "corrupt", entries |-> <<>>]  \* json.load raises
FileNotList == [kind |-> "notlist", entries |-> <<>>]  \* valid JSON, not a list
FileList(es) == [kind |-> "list", entries |-> es]

\* ------------------------------------------------------------ input texts
T_2025_10_01 == <<"2", "0", "2", "5", "-", "1", "0", "-", "0", "1">>
T_2025_02_30 == <<"2", "0", "2", "5", "-", "0", "2", "-", "3", "0">>
T_2025_1_5   == <<"2", "0", "2", "5", "-", "1", "-", "5">>
T_45_756     == <<"4", "5", ".", "7", "5", "6">>
T_abc        == <<"a", "b", "c">>
T_F          == <<" ", "F", " ">>
T_blank      == <<" ">>
T_x          == <<"x">>

\* datetime.today().strftime("%Y-%m-%d")
Today == T_2025_10_01

Inp(a, c, d, x) == [amount |-> a, category |-> c, date |-> d, description |-> x]

NoInp == Inp(<<>>, <<>>, <<>>, <<>>)

\* what the user may type at the prompts of one add or edit: a well-formed
\* answer, answers differing from it in one field, and no answer at all
Inputs ==
  { Inp(T_45_756, T_F, T_2025_10_01, T_x),
    Inp(T_abc,    T_F, T_2025_10_01, T_x),
    Inp(T_45_756, T_blank, T_2025_10_01, T_x),
    Inp(T_45_756, T_F, T_2025_02_30, T_x),
    Inp(T_45_756, T_F, T_2025_1_5, T_x),
    NoInp }

\* elements a file found at start-up may hold
GoodEntry == Rec(Float(200000), Str(<<"F">>), Str(T_2025_10_01), None)

BadAmountEntry == Rec(Str(T_abc), Str(<<"F">>), Str(T_2025_10_01), None)

InitEntries == {GoodEntry, BadAmountEntry, NonDict}

RECURSIVE SeqsUpTo(_, _)
SeqsUpTo(S, n) ==
  IF n = 0 THEN {<<>>}
  ELSE LET shorter == SeqsUpTo(S, n - 1)
       IN  shorter \cup {Append(q, e) : q \in shorter, e \in S}

InitFiles ==
  {FileAbsent, FileCorrupt, FileNotList}
    \cup {FileList(es) : es \in SeqsUpTo(InitEntries, MaxLen)}


\* ------------------------------------------------------------------ state
VARIABLES
  variant,   \* "A" or "B": which of the two programs runs
  alive,     \* the process is inside main's menu loop
  file,      \* expenses.json
  mem,       \* A: main's list `expenses`; B: the list `expenses` local to
             \*    the store function that ran last
  last       \* the operation that ran last: what was typed, what it reported

vars == <<variant, alive, file, mem, last>>

Last(op, res, write, pos, inp, out) ==
  [op |-> op, res |-> res, write |-> write, pos |-> pos, inp |-> inp,
   out |-> out]

\* ---------------------------------------------------------- load and save
\* variant A: the checks an element must pass to be kept
KeepsA(e) ==
  /\ e.dict
  /\ ToFloat(e.amount).ok
  /\ e.category.t = "str" /\ Strip(e.category.s) # <<>>
  /\ e.date.t = "str" /\ StrptimeOk(e.date.s)

\* CleanedA with int(amount) where the code has float(amount)
CleanedA_IntAmount(e) ==
  Rec(Float(1000 * (ToFloat(e.amount).v.n \div 1000)), Str(Strip(e.category.s)),
      e.date, None)

\* variant A: the element appended to `cleaned`
CleanedA(e) ==
  Rec(ToFloat(e.amount).v, Str(Strip(e.category.s)), e.date, None)

RECURSIVE CleanA(_)
CleanA(es) ==
  IF es = <<>> THEN <<>>
  ELSE (IF KeepsA(Head(es)) THEN <<CleanedA(Head(es))>> ELSE <<>>)
         \o CleanA(Tail(es))

load_expenses_A(f) == IF f.kind = "list" THEN CleanA(f.entries) ELSE <<>>

load_expenses_B(f) == IF f.kind = "list" THEN f.entries ELSE <<>>

\* open(filename, 'w') and json.dump: the list is written, or open fails and
\* the file is as it was, or the write fails after open truncated the file
WriteOutcomes(f, es) ==
  { [file |-> FileList(es), ok |-> TRUE],
    [file |-> f,            ok |-> FALSE],
    [file |-> FileCorrupt,  ok |-> FALSE] }

\* variant A: a failed write is printed and swallowed
save_expenses_A(f, es) ==
  { [file |-> o.file, ok |-> o.ok, raised |-> FALSE] : o \in WriteOutcomes(f, es) }

\* variant B: a failed write raises
save_expenses_B(f, es) ==
  { [file |-> o.file, ok |-> o.ok, raised |-> ~o.ok] : o \in WriteOutcomes(f, es) }

WriteStatus(o) == IF o.ok THEN "ok" ELSE "failed"

\* list(): A lists the in-memory list, B reloads the file
List == IF variant = "A" THEN mem ELSE load_expenses_B(file)

\* list.pop(index), index counted from 1 here
RemoveAt(es, i) == SubSeq(es, 1, i - 1) \o SubSeq(es, i + 1, Len(es))


\* ============================================================== variant A
\* prompt_float: [ok |-> FALSE] stands for ValueError
prompt_float(text) ==
  LET raw == Strip(text)
  IN  IF raw = <<>> THEN [ok |-> FALSE, v |-> None] ELSE ParseFloat(raw)

\* main, up to the menu loop
main_start_A ==
  /\ variant = "A" /\ ~alive
  /\ alive' = TRUE
  /\ mem' = load_expenses_A(file)
  /\ last' = Last("start", "ok", "none", -1, NoInp, <<>>)
  /\ UNCHANGED <<variant, file>>

\* the record add_expense builds from accepted answers
RecordA(amount, category, date) == Rec(Round2(amount), Str(category), Str(date), None)

\* menu choice 1
add_expense_A(inp, use_today) ==
  /\ variant = "A" /\ alive /\ Len(mem) < MaxLen
  /\ LET amount   == prompt_float(inp.amount)
         category == Strip(inp.category)
         date_str == Strip(inp.date)
         date     == IF use_today THEN Today ELSE date_str
         typed    == Inp(inp.amount, inp.category,
                         IF use_today THEN Today ELSE inp.date, <<>>)
     IN  \/ /\ \/ ~amount.ok
               \/ category = <<>>
               \/ ~use_today /\ ~StrptimeOk(date_str)
            /\ last' = Last("add", "rejected", "none", -1, NoInp, <<>>)
            /\ UNCHANGED <<variant, alive, file, mem>>
         \/ /\ amount.ok /\ category # <<>>
            /\ use_today \/ StrptimeOk(date_str)
            /\ mem' = Append(mem, RecordA(amount.v, category, date))
            /\ \E o \in save_expenses_A(file, mem') :
                 /\ file' = o.file
                 /\ last' = Last("add", "ok", WriteStatus(o), Len(mem), typed, <<>>)
            /\ UNCHANGED <<variant, alive>>

\* the fields edit_expense leaves in the record after the three prompts
EditedA(exp, inp) ==
  LET new_amount == Strip(inp.amount)
      new_cat    == Strip(inp.category)
      new_date   == Strip(inp.date)
  IN  [exp EXCEPT
         !.amount   = IF new_amount # <<>> /\ ParseFloat(new_amount).ok
                      THEN Round2(ParseFloat(new_amount).v) ELSE @,
         !.category = IF new_cat # <<>> THEN Str(new_cat) ELSE @,
         !.date     = IF new_date # <<>> /\ StrptimeOk(new_date)
                      THEN Str(new_date) ELSE @]

\* IndexA with the upper limit of the range test one too high
IndexA_OffByOne(is_int, idx) ==
  IF mem = <<>> THEN "empty"
  ELSE IF ~is_int THEN "invalid"
  ELSE IF idx = 0 THEN "cancel"
  ELSE IF 1 <= idx /\ idx <= Len(mem) + 1 THEN "ok"
  ELSE "notfound"

\* what the answer to "Enter the number ..." leads to; is_int is FALSE for
\* an answer int() rejects (idx is then 0), and inp is NoInp on the paths
\* that return before the field prompts
IndexA(is_int, idx) ==
  IF mem = <<>> THEN "empty"
  ELSE IF ~is_int THEN "invalid"
  ELSE IF idx = 0 THEN "cancel"
  ELSE IF 1 <= idx /\ idx <= Len(mem) THEN "ok"
  ELSE "notfound"

\* menu choice 3
edit_expense_A(is_int, idx, inp) ==
  /\ variant = "A" /\ alive
  /\ \/ /\ inp = NoInp /\ (is_int \/ idx = 0)
        /\ IndexA(is_int, idx) # "ok"
        /\ last' = Last("edit", IndexA(is_int, idx), "none",
                        IF IndexA(is_int, idx) = "notfound" THEN idx - 1 ELSE -1,
                        NoInp, <<>>)
        /\ UNCHANGED <<variant, alive, file, mem>>
     \/ /\ IndexA(is_int, idx) = "ok"
        /\ mem' = [mem EXCEPT ![idx] = EditedA(@, inp)]
        /\ \E o \in save_expenses_A(file, mem') :
             /\ file' = o.file
             /\ last' = Last("edit", "ok", WriteStatus(o), idx - 1, inp, <<>>)
        /\ UNCHANGED <<variant, alive>>

\* menu choice 4
delete_expense_A(is_int, idx) ==
  /\ variant = "A" /\ alive
  /\ \/ /\ is_int \/ idx = 0
        /\ IndexA(is_int, idx) # "ok"
        /\ last' = Last("delete", IndexA(is_int, idx), "none",
                        IF IndexA(is_int, idx) = "notfound" THEN idx - 1 ELSE -1,
                        NoInp, <<>>)
        /\ UNCHANGED <<variant, alive, file, mem>>
     \/ /\ IndexA(is_int, idx) = "ok"
        /\ mem' = RemoveAt(mem, idx)
        /\ \E o \in save_expenses_A(file, mem') :
             /\ file' = o.file
             /\ last' = Last("delete", "ok", WriteStatus(o), idx - 1, NoInp, <<>>)
        /\ UNCHANGED <<variant, alive>>

\* ------------------------------------------------------- monthly summary
\* the keys of a dict of totals, as sorted() orders them
RECURSIVE SortedTexts(_)
SortedTexts(S) ==
  IF S = {} THEN <<>>
  ELSE LET m == CHOOSE x \in S : \A y \in S \ {x} : StrLess(x, y)
       IN  <<m>> \o SortedTexts(S \ {m})

\* monthly[k] after the loop over the records: keys[i] is the key of es[i],
\* amounts[i] the number added for it
RECURSIVE Accumulated(_, _, _)
Accumulated(keys, amounts, k) ==
  IF keys = <<>> THEN Float(0)
  ELSE LET n    == Len(keys)
           rest == Accumulated(SubSeq(keys, 1, n - 1), SubSeq(amounts, 1, n - 1), k)
       IN  IF keys[n] = k THEN FAdd(rest, amounts[n]) ELSE rest

Totals(keys, amounts) ==
  LET ks == SortedTexts({keys[i] : i \in 1..Len(keys)})
  IN  [i \in 1..Len(ks) |-> [key |-> ks[i], total |-> Accumulated(keys, amounts, ks[i])]]

\* view_summary, choice 4: month = e["date"][:7]
MonthlyA(es) ==
  Totals([i \in 1..Len(es) |-> Prefix(es[i].date.s, 7)],
         [i \in 1..Len(es) |-> es[i].amount])

\* menu choice 2, option 4
view_summary_A ==
  /\ variant = "A" /\ alive
  /\ last' = IF mem = <<>>
             THEN Last("summary", "empty", "none", -1, NoInp, <<>>)
             ELSE Last("summary", "ok", "none", -1, NoInp, MonthlyA(mem))
  /\ UNCHANGED <<variant, alive, file, mem>>

\* menu choice 6 (A), 7 (B): the loop ends and the process with it
main_exit ==
  /\ alive
  /\ alive' = FALSE
  /\ mem' = <<>>
  /\ last' = Last("exit", "ok", "none", -1, NoInp, <<>>)
  /\ UNCHANGED <<variant, file>>


\* ============================================================== variant B
\* ensure_sample_data: the list `sample`
Sample ==
  << Rec(Float(200000), Str(<<"F", "o", "o", "d">>), Str(<<"2", "0", "2", "5", "-", "1", "0", "-", "0", "1">>),
         Str(<<"B", "r", "e", "a", "k", "f", "a", "s", "t">>)),
     Rec(Float(120000), Str(<<"T", "r", "a", "n", "s", "p", "o", "r", "t">>), Str(<<"2", "0", "2", "5", "-", "1", "0", "-", "0", "3">>),
         Str(<<"B", "u", "s", " ", "t", "i", "c", "k", "e", "t">>)),
     Rec(Float(500000), Str(<<"S", "h", "o", "p", "p", "i", "n", "g">>), Str(<<"2", "0", "2", "5", "-", "1", "0", "-", "0", "5">>),
         Str(<<"G", "r", "o", "c", "e", "r", "i", "e", "s">>)),
     Rec(Float(1500000), Str(<<"B", "i", "l", "l", "s">>), Str(<<"2", "0", "2", "5", "-", "0", "9", "-", "2", "8">>),
         Str(<<"E", "l", "e", "c", "t", "r", "i", "c", "i", "t", "y", " ", "b", "i", "l", "l">>)) >>

\* main_start_B without the test `if not expenses`: the sample is written at
\* every start
main_start_B_NoTest ==
  /\ variant = "B" /\ ~alive
  /\ \E o \in save_expenses_B(file, Sample) :
       /\ file' = o.file
       /\ alive' = ~o.raised
       /\ mem' = IF o.raised THEN <<>> ELSE Sample
       /\ last' = Last("start", IF o.raised THEN "raised" ELSE "ok",
                       WriteStatus(o), -1, NoInp, <<>>)
  /\ UNCHANGED variant

\* main, up to the menu loop: ensure_sample_data()
main_start_B ==
  /\ variant = "B" /\ ~alive
  /\ LET expenses == load_expenses_B(file)
     IN  IF expenses = <<>>
         THEN \E o \in save_expenses_B(file, Sample) :
                /\ file' = o.file
                /\ alive' = ~o.raised
                /\ mem' = IF o.raised THEN <<>> ELSE Sample
                /\ last' = Last("start", IF o.raised THEN "raised" ELSE "ok",
                                WriteStatus(o), -1, NoInp, <<>>)
         ELSE /\ alive' = TRUE
              /\ mem' = expenses
              /\ last' = Last("start", "ok", "none", -1, NoInp, <<>>)
              /\ UNCHANGED file
  /\ UNCHANGED variant

\* an exception no handler catches: the traceback is printed, the process ends
Crash(op, write, pos, inp) ==
  /\ alive' = FALSE
  /\ mem' = <<>>
  /\ last' = Last(op, "raised", write, pos, inp, <<>>)

\* the dict add_expense and edit_expense build
RecordB(date, category, amount, description) ==
  Rec(amount, Str(category), Str(date), Str(description))

\* menu choice 1 and add_expense
add_expense_B(inp) ==
  /\ variant = "B" /\ alive /\ Len(load_expenses_B(file)) < MaxLen
  /\ LET date   == IF inp.date = <<>> THEN Today ELSE inp.date
         amount == ParseFloat(inp.amount)
         typed  == Inp(inp.amount, inp.category, date, inp.description)
     IN  \/ /\ ~amount.ok
            /\ Crash("add", "none", -1, NoInp)
            /\ UNCHANGED <<variant, file>>
         \/ /\ amount.ok
            /\ LET expenses == Append(load_expenses_B(file),
                                      RecordB(date, inp.category, amount.v,
                                              inp.description))
               IN  \E o \in save_expenses_B(file, expenses) :
                     /\ file' = o.file
                     /\ IF o.raised
                        THEN Crash("add", "failed", Len(expenses) - 1, typed)
                        ELSE /\ mem' = expenses
                             /\ last' = Last("add", "ok", "ok", Len(expenses) - 1,
                                             typed, <<>>)
                             /\ UNCHANGED alive
            /\ UNCHANGED variant

\* find_expense_index_by_rowid: TRUE when it returns the row id, not None
find_expense_index_by_rowid(rowid) ==
  0 <= rowid /\ rowid < Len(load_expenses_B(file))

\* menu choice 3 and edit_expense; is_int is FALSE for an answer int() rejects
edit_expense_B(is_int, row_id, inp) ==
  /\ variant = "B" /\ alive
  /\ \/ /\ ~is_int /\ row_id = 0 /\ inp = NoInp
        /\ Crash("edit", "none", -1, NoInp)
        /\ UNCHANGED <<variant, file>>
     \/ /\ is_int /\ ~find_expense_index_by_rowid(row_id) /\ inp = NoInp
        /\ mem' = load_expenses_B(file)
        /\ last' = Last("edit", "notfound", "none", row_id, NoInp, <<>>)
        /\ UNCHANGED <<variant, alive, file>>
     \/ /\ is_int /\ find_expense_index_by_rowid(row_id)
        /\ ~ParseFloat(inp.amount).ok
        /\ Crash("edit", "none", row_id, NoInp)
        /\ UNCHANGED <<variant, file>>
     \/ /\ is_int /\ find_expense_index_by_rowid(row_id)
        /\ ParseFloat(inp.amount).ok
        /\ LET expenses == [load_expenses_B(file) EXCEPT ![row_id + 1] =
                              RecordB(inp.date, inp.category,
                                      ParseFloat(inp.amount).v, inp.description)]
           IN  \E o \in save_expenses_B(file, expenses) :
                 /\ file' = o.file
                 /\ IF o.raised
                    THEN Crash("edit", "failed", row_id, inp)
                    ELSE /\ mem' = expenses
                         /\ last' = Last("edit", "ok", "ok", row_id, inp, <<>>)
                         /\ UNCHANGED alive
        /\ UNCHANGED variant

\* menu choice 4 and delete_expense
delete_expense_B(is_int, row_id) ==
  /\ variant = "B" /\ alive
  /\ \/ /\ ~is_int /\ row_id = 0
        /\ Crash("delete", "none", -1, NoInp)
        /\ UNCHANGED <<variant, file>>
     \/ /\ is_int /\ ~find_expense_index_by_rowid(row_id)
        /\ mem' = load_expenses_B(file)
        /\ last' = Last("delete", "notfound", "none", row_id, NoInp, <<>>)
        /\ UNCHANGED <<variant, alive, file>>
     \/ /\ is_int /\ find_expense_index_by_rowid(row_id)
        /\ LET expenses == RemoveAt(load_expenses_B(file), row_id + 1)
           IN  \E o \in save_expenses_B(file, expenses) :
                 /\ file' = o.file
                 /\ IF o.raised
                    THEN Crash("delete", "failed", row_id, NoInp)
                    ELSE /\ mem' = expenses
                         /\ last' = Last("delete", "ok", "ok", row_id, NoInp, <<>>)
                         /\ UNCHANGED alive
        /\ UNCHANGED variant


\* a text of the form dddd-dd-dd naming a real calendar date
IsoDate(s) ==
  Len(s) = 10 /\ s[5] = "-" /\ s[8] = "-" /\ StrptimeOk(s)

\* str(Period) of the month a parsed date lies in: YYYY-MM, month padded
PeriodText(s) ==
  LET p == Split(s, "-")
  IN  p[1] \o <<"-">> \o (IF Len(p[2]) = 1 THEN <<"0">> \o p[2] ELSE p[2])

\* pd.to_datetime on one value of the Date column.  A real date written
\* without padding parses or raises, depending on the pandas release and on
\* the format inferred from the first row: lenient chooses.
DateParses(v, lenient) ==
  \/ v.t = "None"
  \/ v.t = "str" /\ IsoDate(v.s)
  \/ v.t = "str" /\ lenient /\ StrptimeOk(v.s)

\* pd.to_numeric(errors='coerce').fillna(0.0) on one value of Amount
CoercedAmount(v) ==
  IF v.t \in {"float", "inf"} THEN v
  ELSE IF v.t = "str" /\ ParseFloat(v.s).ok /\ ParseFloat(v.s).v.t # "nan"
  THEN ParseFloat(v.s).v
  ELSE Float(0)

\* the rows groupby('Month') keeps: those whose date is not NaT
RECURSIVE Dated(_)
Dated(es) ==
  IF es = <<>> THEN <<>>
  ELSE (IF Head(es).date.t = "str" THEN <<Head(es)>> ELSE <<>>) \o Dated(Tail(es))

\* view_summary: by_month, sorted by Month
MonthlyB(es) ==
  LET rows == Dated(es)
  IN  Totals([i \in 1..Len(rows) |-> PeriodText(rows[i].date.s)],
             [i \in 1..Len(rows) |-> CoercedAmount(rows[i].amount)])

\* load_as_dataframe raises: a row that is no dict, or a date that does not
\* parse
DataFrameRaises(es, lenient) ==
  \E i \in 1..Len(es) : ~es[i].dict \/ ~DateParses(es[i].date, lenient)

\* menu choice 5 and view_summary
view_summary_B(lenient) ==
  /\ variant = "B" /\ alive
  /\ LET expenses == load_expenses_B(file)
     IN  \/ /\ expenses = <<>>
            /\ mem' = expenses
            /\ last' = Last("summary", "empty", "none", -1, NoInp, <<>>)
            /\ UNCHANGED alive
         \/ /\ expenses # <<>> /\ DataFrameRaises(expenses, lenient)
            /\ Crash("summary", "none", -1, NoInp)
         \/ /\ expenses # <<>> /\ ~DataFrameRaises(expenses, lenient)
            /\ mem' = expenses
            /\ last' = Last("summary", "ok", "none", -1, NoInp, MonthlyB(expenses))
            /\ UNCHANGED alive
  /\ UNCHANGED <<variant, file>>

\* ---------------------------------------------------------- specification
Init ==
  /\ variant \in {"A", "B"}
  /\ alive = FALSE
  /\ file \in InitFiles
  /\ mem = <<>>
  /\ last = Last("none", "ok", "none", -1, NoInp, <<>>)

\* the numbers a user may answer to "which expense": every position of the
\* list, and one below and two above
Indexes == -1 .. (Len(List) + 1)

Next ==
  \/ main_start_A
  \/ \E inp \in Inputs, use_today \in BOOLEAN : add_expense_A(inp, use_today)
  \/ \E is_int \in BOOLEAN, idx \in Indexes, inp \in Inputs :
       edit_expense_A(is_int, idx, inp)
  \/ \E is_int \in BOOLEAN, idx \in Indexes : delete_expense_A(is_int, idx)
  \/ view_summary_A
  \/ main_start_B
  \/ \E inp \in Inputs : add_expense_B(inp)
  \/ \E is_int \in BOOLEAN, row_id \in Indexes, inp \in Inputs :
       edit_expense_B(is_int, row_id, inp)
  \/ \E is_int \in BOOLEAN, row_id \in Indexes : delete_expense_B(is_int, row_id)
  \/ \E lenient \in BOOLEAN : view_summary_B(lenient)
  \/ main_exit

Spec == Init /\ [][Next]_vars


\* ================================================================= claims
\* Validation as the specification states it: the amount parses as a finite
\* number, the category is not empty after trimming, the date is a real
\* calendar date written YYYY-MM-DD
ValidRecord(e) ==
  /\ e.dict
  /\ ToFloat(e.amount).ok /\ ToFloat(e.amount).v.t = "float"
  /\ e.category.t = "str" /\ Strip(e.category.s) # <<>>
  /\ e.date.t = "str" /\ IsoDate(e.date.s)

AllValid(es) == \A i \in 1..Len(es) : ValidRecord(es[i])

\* the three answers typed pass Validation
ValidTyped(inp) ==
  /\ ParseFloat(inp.amount).ok /\ ParseFloat(inp.amount).v.t = "float"
  /\ Strip(inp.category) # <<>>
  /\ IsoDate(inp.date)

\* e holds the answers typed, normalized: amount rounded to 2 decimals,
\* category trimmed
IsNormalized(e, inp) ==
  /\ e.dict
  /\ e.amount = Round2(ParseFloat(inp.amount).v)
  /\ e.category = Str(Strip(inp.category))
  /\ e.date = Str(inp.date)

InRange(p, es) == 0 <= p /\ p < Len(es)

Mutation == {"add", "edit", "delete"}

\* C1: every record in memory and every record an operation has just written
\* to the file passes Validation.
C1_OnlyValidRecords ==
  /\ AllValid(mem)
  /\ last.write = "ok" => file.kind = "list" /\ AllValid(file.entries)

\* C2: once an add, edit or delete has reported success, the file holds
\* exactly the sequence held in memory.
C2_WriteThrough ==
  (last.op \in Mutation /\ last.res = "ok") => file = FileList(mem)

\* l records an edit or delete that read a position: variant A returns
\* before the prompt on an empty list and rejects an answer that is no
\* integer, variant B ends on such an answer
PositionGiven(l) ==
  /\ l.op \in {"edit", "delete"}
  /\ l.res \notin {"empty", "invalid"}
  /\ ~(l.res = "raised" /\ l.pos = -1)

\* C3: an edit or delete naming a position outside [0, len) reports that
\* nothing was found (variant A answers "Cancelled." to the position just
\* below the range), and changes neither the listed sequence nor the file.
C3_Step ==
  (PositionGiven(last') /\ ~InRange(last'.pos, List))
    => /\ last'.res \in {"notfound", "cancel"}
       /\ last'.write = "none"
       /\ List' = List
       /\ file' = file

C3_OutOfRangeNoChange == [][C3_Step]_vars

C3_Witness ==
  /\ last.op \in {"edit", "delete"} /\ last.res = "notfound"
  /\ List # <<>> /\ last.pos >= Len(List)

\* C4: a delete naming a position p in [0, len) reports success, and the
\* listed sequence is then one shorter, equal before p and shifted down by
\* one from p on.
C4_Step ==
  (last'.op = "delete" /\ InRange(last'.pos, List))
    => /\ last'.res = "ok"
       /\ Len(List') = Len(List) - 1
       /\ \A i \in 1..Len(List') :
            List'[i] = IF i <= last'.pos THEN List[i] ELSE List[i + 1]

C4_DeleteShifts == [][C4_Step]_vars


\* C5: a successful edit at a position p in [0, len) whose answers pass
\* Validation leaves at p the normalized record of those answers, keeps the
\* length and every other record, and the file holds the result once its
\* write has succeeded.
C5_Step ==
  (/\ last'.op = "edit" /\ last'.res = "ok"
   /\ InRange(last'.pos, List) /\ ValidTyped(last'.inp))
    => /\ Len(List') = Len(List)
       /\ IsNormalized(List'[last'.pos + 1], last'.inp)
       /\ \A i \in 1..Len(List) : i # last'.pos + 1 => List'[i] = List[i]
       /\ last'.write = "ok" => file' = FileList(List')

C5_EditReplaces == [][C5_Step]_vars

\* load_expenses of the variant that runs
Load(f) == IF variant = "A" THEN load_expenses_A(f) ELSE load_expenses_B(f)

\* C6: when a sequence made only of records passing Validation has been
\* saved, a fresh load of the file returns that sequence.
C6_RoundTrip ==
  (last.write = "ok" /\ AllValid(mem)) => Load(file) = mem

C6_Witness ==
  /\ last.write = "ok" /\ last.op \in Mutation
  /\ Len(mem) >= 2 /\ AllValid(mem)
  /\ variant = "A"

\* the entries of a file that pass Validation, in their order; none when
\* the file is absent or holds no list
ValidEntries(f) ==
  IF f.kind = "list" THEN SelectSeq(f.entries, ValidRecord) ELSE <<>>

\* C7: the load at start-up returns, without raising, exactly the entries of
\* the file that pass Validation, in their order, and the empty sequence for
\* a file that is absent or holds no list.
C7_LenientLoad ==
  (last.op = "start" /\ last.write = "none")
    => alive /\ last.res = "ok" /\ mem = ValidEntries(file)

\* C8: an add whose answers pass Validation makes the listed sequence the
\* previous one followed by the normalized record of those answers.
C8_Step ==
  (last'.op = "add" /\ last'.res = "ok" /\ ValidTyped(last'.inp))
    => /\ Len(List') = Len(List) + 1
       /\ SubSeq(List', 1, Len(List)) = List
       /\ IsNormalized(List'[Len(List')], last'.inp)

C8_AddAppendsNormalized == [][C8_Step]_vars

\* C9: when the file write of an add, edit or delete fails, the operation
\* does not report success and the process goes on.
C9_WriteFailureReported ==
  (last.op \in Mutation /\ last.write = "failed")
    => last.res # "ok" /\ alive

\* records whose fields have the types the aggregation reads
WellTyped(es) ==
  \A i \in 1..Len(es) :
    /\ es[i].dict /\ IsFloat(es[i].amount)
    /\ es[i].category.t = "str" /\ es[i].date.t = "str"

\* the sum of the amounts of the records of month k
RECURSIVE SumOfMonth(_, _)
SumOfMonth(es, k) ==
  IF es = <<>> THEN Float(0)
  ELSE IF Prefix(Head(es).date.s, 7) = k
       THEN FAdd(Head(es).amount, SumOfMonth(Tail(es), k))
       ELSE SumOfMonth(Tail(es), k)

\* C10: the monthly summary of the stored records has one key per distinct
\* year-month (the first 7 characters of a date), in ascending order, each
\* with the sum of the amounts of that month, and leaves the store as it was.
C10_Step ==
  (last'.op = "summary" /\ WellTyped(List))
    => /\ last'.res \in {"ok", "empty"}
       /\ LET out  == last'.out
              keys == {Prefix(List[i].date.s, 7) : i \in 1..Len(List)}
          IN  /\ {out[i].key : i \in 1..Len(out)} = keys
              /\ Len(out) = Cardinality(keys)
              /\ \A i \in 1..(Len(out) - 1) : StrLess(out[i].key, out[i + 1].key)
              /\ \A i \in 1..Len(out) : out[i].total = SumOfMonth(List, out[i].key)
       /\ List' = List
       /\ file' = file

C10_MonthlyTotals == [][C10_Step]_vars

\* C11: a start of variant B writes the sample exactly when load_expenses
\* returns the empty list (file absent, unreadable, no list, or an empty
\* list): the write made, the file holds the four sample records; when the
\* load is not empty no write is made and the file is as it was.  Hence,
\* once a start has reached the menu, the file holds a non-empty list, also
\* when every record had been deleted before.
C11_Step ==
  (variant = "B" /\ last'.op = "start")
    => /\ (last'.write # "none") <=> (load_expenses_B(file) = <<>>)
       /\ last'.write = "none" => file' = file
       /\ last'.write = "ok"
            => /\ file' = FileList(Sample)
               /\ Len(file'.entries) = 4
       /\ alive' <=> (last'.write # "failed")
       /\ alive' => /\ file'.kind = "list"
                    /\ file'.entries # <<>>
                    /\ mem' = file'.entries

C11_SampleAtStartup == [][C11_Step]_vars

\* variant B has started on an empty load and has written the sample
C11_Witness ==
  /\ variant = "B" /\ alive
  /\ last.op = "start" /\ last.write = "ok"
  /\ file = FileList(Sample)

=============================================================================
